---- MODULE Spec2Model ----
(***************************************************************************)
(* redis-delayed-tasks: the DelayedTasks engine (DelayedTasks.poll,        *)
(* DelayedTasks.add, DelayedTasks.addToRedis, connect, start, stop, close) *)
(* over one redis sorted set shared by several engines, each engine on its *)
(* own redis connection.                                                   *)
(*                                                                         *)
(* A connection is a FIFO pipeline of commands: the redis server applies   *)
(* the commands of one connection in the order the client issued them, and *)
(* the client runs the reply callbacks in that same order.  One step of    *)
(* the model applies the command at the head of a connection's pipeline    *)
(* and runs the callback the engine registered for it.                     *)
(***************************************************************************)
EXTENDS Integers, Sequences, FiniteSets, TLC

\* ------------------------------------------------------------------ bounds
MaxClock == 2
MaxPolls == 2
MaxTimers == 2

Engines == {"e1", "e2"}
Delays == {1, 2}
Payloads == {"a"}
NoData == "null"
Undefined == "undefined"
NoEngine == "none"
\* the ids uuidv1() hands out, in the lexicographic order of their text
TaskIds == {1, 2}

VARIABLES
  clock,      \* the last value read from new Date().getTime()
  zset,       \* the sorted sets of the store: a set of [key, score, member]
  watching,   \* per connection: the key is WATCHed
  dirty,      \* per connection: the WATCHed key was touched (EXEC will abort)
  pipeline,   \* per connection: commands issued and not yet replied to, each
              \* with the state of the poll() or add() call that awaits it
  npolls,     \* number of poll() calls so far
  issued,     \* the ids uuidv1() has handed out
  acked,      \* ids of the add() calls that have resolved
  delivered,  \* per task id and engine: number of callback invocations
  last,       \* the poll() call settled by the last step, with what it did
  overlapped, \* some engine has had two poll() calls in flight at once
  redisClient,        \* per engine: this.redisClient, by the state of the
                      \* client ("closed", "connecting", "ready") or "null"
  selfContainedResis, \* per engine: the engine created its client itself
  pollIntervalId,     \* per engine: the timer handle, NoTimer for null
  timers,             \* per engine: the intervals set and not cleared
  closing,            \* per engine: close() is awaiting disconnect()
  call,               \* the last call that threw or returned a value to the
                      \* caller synchronously, with the state it found
  queueId             \* per engine: this.id, the identity of its queue

\* the state of the engine objects: constant while the stream of add() and
\* poll() calls of connected engines is looked at
engine == <<redisClient, selfContainedResis, pollIntervalId, timers, closing,
            call, queueId>>

vars == <<clock, zset, watching, dirty, pipeline, npolls, issued, acked,
          delivered, last, overlapped, redisClient, selfContainedResis,
          pollIntervalId, timers, closing, call, queueId>>

\* -------------------------------------------------------------- js values
\* the values a caller may pass for delayMs: a number, NaN, Infinity, or a
\* value that is no number
Number(n) == [type |-> "number", n |-> n]

NaN == [type |-> "NaN", n |-> 0]

Infinity == [type |-> "Infinity", n |-> 0]

NotANumber == [type |-> "string", n |-> 0]

typeof(v) == IF v.type \in {"number", "NaN", "Infinity"} THEN "number" ELSE v.type

\* v <= 0: false for NaN and for Infinity
LessOrEqualZero(v) == v.type = "number" /\ v.n <= 0

\* the scores and due times of the model are integers; a time that is not
\* finite is kept as an integer beyond every finite one
MaxDue == MaxClock + CHOOSE d \in Delays : \A x \in Delays : x <= d

InfiniteTime == MaxDue + 1

NaNTime == MaxDue + 2

\* what JSON.stringify writes for a number that is not finite
JsonNull == MaxDue + 3

\* a due time that leaves the delay out
PlusNothing(t, v) == t

\* new Date().getTime() + delayMs
Plus(t, v) ==
  CASE v.type = "number" -> t + v.n
    [] v.type = "Infinity" -> InfiniteTime
    [] OTHER -> NaNTime

JsonNumber(x) == IF x \in {InfiniteTime, NaNTime} THEN JsonNull ELSE x

\* ------------------------------------------------------------------ codec
\* JSON.stringify({id, due, data}) / JSON.parse: the member is a text whose
\* fields appear in the order id, due, data.
stringify(id, due, data) == <<"id", id, "due", JsonNumber(due), "data", data>>

\* a decoder that takes the due for the id and the id for the due
parseSwapped(t) == [id |-> t[4], due |-> t[2], data |-> t[6]]

parse(t) == [id |-> t[2], due |-> t[4], data |-> t[6]]

\* a member that is no JSON text, written to the key by another client
Undecodable == <<"{", 0>>

\* JSON.parse(t) returns
Decodable(t) == Len(t) = 6 /\ t[1] = "id"

\* ------------------------------------------------------------ redis server
\* an order by member text alone, the score ignored
BeforeByMember(x, y) == x.member[2] < y.member[2]

\* members of one score are ordered lexicographically; the member text starts
\* with the id, so the id decides
Before(x, y) ==
  \/ x.score < y.score
  \/ x.score = y.score /\ x.member[2] < y.member[2]

RECURSIVE Ascending(_)
Ascending(S) ==
  IF S = {} THEN <<>>
  ELSE LET m == CHOOSE x \in S : \A y \in S \ {x} : Before(x, y)
       IN  <<m.member>> \o Ascending(S \ {m})

InRange(z, min, max) == {x \in z : min <= x.score /\ x.score <= max}

\* a range read whose upper limit is one past max
zrangebyscoreLate(z, min, max) == Ascending(InRange(z, min, max + 1))

\* ZRANGEBYSCORE key min max
zrangebyscore(z, min, max) == Ascending(InRange(z, min, max))

\* a range removal whose upper limit is one past max
zremrangebyscoreLate(z, min, max) == z \ InRange(z, min, max + 1)

\* ZREMRANGEBYSCORE key min max: what is left of the set
zremrangebyscore(z, min, max) == z \ InRange(z, min, max)

\* a store whose writes flag no watcher
TouchNone(d, w) == d

\* a write to the key flags every connection that WATCHes it
Touch(d, w) == [c \in Engines |-> d[c] \/ w[c]]

\* ------------------------------------------------------------------- state
QueueIds == {"q1", "q2"}

\* a key that is the same for every queue
redisKeyShared(q) == <<"delayed:", "">>

\* `delayed:${ this.id }`
redisKey(q) == <<"delayed:", q>>

NoPoll ==
  [eng |-> NoEngine, now |-> 0, outcome |-> "none", tasks |-> <<>>,
   calls |-> <<>>, result |-> 0, removed |-> {}, touched |-> FALSE,
   raisedAt |-> 0]

NoTimer == 0

\* setInterval's period when the settings give none that is usable
DefaultPollIntervalMs == 1000

\* no object: the constructor threw
NoInstance ==
  [id |-> "", redisClient |-> "none", selfContainedResis |-> FALSE,
   callback |-> "none", redisKey |-> <<>>,
   pollIntervalMs |-> Number(DefaultPollIntervalMs),
   pollIntervalId |-> NoTimer]

NoCall ==
  [op |-> "none", eng |-> NoEngine, args |-> <<>>, ret |-> "none",
   thrown |-> "none", redisClient |-> "none", pollIntervalId |-> NoTimer,
   timers |-> {}, instance |-> NoInstance, library |-> <<>>]

\* no add() or poll() call yet, the set empty
Empty ==
  /\ clock = 0
  /\ zset = {}
  /\ watching = [c \in Engines |-> FALSE]
  /\ dirty = [c \in Engines |-> FALSE]
  /\ pipeline = [c \in Engines |-> <<>>]
  /\ npolls = 0
  /\ issued = {}
  /\ acked = {}
  /\ delivered = [id \in TaskIds |-> [e \in Engines |-> 0]]
  /\ last = NoPoll
  /\ overlapped = FALSE

\* the constructor: no timer; selfContainedResis is true for the engine
\* built from connection parameters, false for the one built on a client
Constructed ==
  /\ selfContainedResis = [e \in Engines |-> e = "e1"]
  /\ redisClient = [e \in Engines |-> "closed"]
  /\ pollIntervalId = [e \in Engines |-> NoTimer]
  /\ timers = [e \in Engines |-> {}]
  /\ closing = [e \in Engines |-> FALSE]
  /\ call = NoCall
  /\ queueId = [e \in Engines |-> "q1"]

\* engines of one kind, connected, their timers not looked at
Connected ==
  /\ selfContainedResis = [e \in Engines |-> TRUE]
  /\ redisClient = [e \in Engines |-> "ready"]
  /\ pollIntervalId = [e \in Engines |-> NoTimer]
  /\ timers = [e \in Engines |-> {}]
  /\ closing = [e \in Engines |-> FALSE]
  /\ call = NoCall
  /\ queueId = [e \in Engines |-> "q1"]

Init == Empty /\ Connected

\* connected engines, of one queue or of two
Identified ==
  /\ selfContainedResis = [e \in Engines |-> TRUE]
  /\ redisClient = [e \in Engines |-> "ready"]
  /\ pollIntervalId = [e \in Engines |-> NoTimer]
  /\ timers = [e \in Engines |-> {}]
  /\ closing = [e \in Engines |-> FALSE]
  /\ call = NoCall
  /\ queueId \in {f \in [Engines -> QueueIds] : f["e1"] = "q1"}

InitIdentity == Empty /\ Identified

\* connected engines of one queue whose set holds a member that another
\* client has written
InitForeign ==
  /\ Connected
  /\ clock = 0
  /\ zset = {[key |-> redisKey("q1"), score |-> 1, member |-> Undecodable]}
  /\ issued = {}
  /\ acked = {}
  /\ watching = [c \in Engines |-> FALSE]
  /\ dirty = [c \in Engines |-> FALSE]
  /\ pipeline = [c \in Engines |-> <<>>]
  /\ npolls = 0
  /\ delivered = [i \in TaskIds |-> [e \in Engines |-> 0]]
  /\ last = NoPoll
  /\ overlapped = FALSE

\* the records that add() calls made at time 0 have stored
Backlog ==
  {[key |-> redisKey("q1"), score |-> Plus(0, Number(d)),
    member |-> stringify(i, Plus(0, Number(d)), data)] :
      i \in TaskIds, d \in Delays, data \in Payloads}

\* connected engines of one queue whose add() calls have all resolved
InitDrain ==
  /\ Connected
  /\ clock = 0
  /\ zset \in {S \in SUBSET Backlog :
                 /\ S # {}
                 /\ \A x, y \in S : x.member[2] = y.member[2] => x = y}
  /\ issued = {x.member[2] : x \in zset}
  /\ acked = issued
  /\ watching = [c \in Engines |-> FALSE]
  /\ dirty = [c \in Engines |-> FALSE]
  /\ pipeline = [c \in Engines |-> <<>>]
  /\ npolls = 0
  /\ delivered = [i \in TaskIds |-> [e \in Engines |-> 0]]
  /\ last = NoPoll
  /\ overlapped = FALSE

InitEngine == Empty /\ Constructed

isReady(e) == redisClient[e] = "ready"

\* the engines cannot be told apart
Alike ==
  \A a, b \in Engines :
     /\ selfContainedResis[a] = selfContainedResis[b]
     /\ redisClient[a] = redisClient[b]
     /\ timers[a] = timers[b]
     /\ queueId[a] = queueId[b]

NoCallYet == npolls = 0 /\ issued = {}

\* new Date().getTime(): any time not before the last one read; time is
\* counted from the first call
Times == IF NoCallYet THEN {clock} ELSE clock..MaxClock

\* the engines are interchangeable: the one that makes the first call is e1
FirstCall(e) == (NoCallYet /\ Alike) => e = "e1"

Send(c, cmd) == [pipeline EXCEPT ![c] = Append(@, cmd)]

Reply(c, next) == [pipeline EXCEPT ![c] = Tail(@) \o next]

Front(c) == pipeline[c][1]

Awaits(c, op) == pipeline[c] # <<>> /\ Front(c).op = op

\* the commands a poll() call waits for until it settles
PollOps == {"watch", "zrangebyscore", "exec"}

PollInFlight(e) == \E k \in 1..Len(pipeline[e]) : pipeline[e][k].op \in PollOps

\* the poll() calls that have had their WATCH reply and have not settled see
\* the key written by another command
MarkTouched(q) ==
  [k \in 1..Len(q) |->
     IF q[k].op \in {"zrangebyscore", "exec"}
     THEN [q[k] EXCEPT !.touched = TRUE]
     ELSE q[k]]

Written(pl, key) ==
  [c \in Engines |->
     IF redisKey(queueId[c]) = key THEN MarkTouched(pl[c]) ELSE pl[c]]

\* the sorted set at the redisKey of engine c
Stored(c) == {x \in zset : x.key = redisKey(queueId[c])}

\* the connections that WATCH the redisKey of engine c
Watchers(c) ==
  [x \in Engines |-> watching[x] /\ redisKey(queueId[x]) = redisKey(queueId[c])]

\* what a settled call did
Settled(c, outcome, calls, result, removed) ==
  [eng |-> c, now |-> Front(c).now, outcome |-> outcome,
   tasks |-> Front(c).tasks, calls |-> calls, result |-> result,
   removed |-> removed, touched |-> Front(c).touched, raisedAt |-> 0]

\* -------------------------------------------------------------------- poll
\* poll(): capture now, issue WATCH
poll(e, t) ==
  /\ isReady(e)
  /\ npolls < MaxPolls
  /\ FirstCall(e)
  /\ clock' = t
  /\ npolls' = npolls + 1
  /\ pipeline' = Send(e, [op |-> "watch", now |-> t, tasks |-> <<>>,
                          touched |-> FALSE])
  /\ overlapped' = (overlapped \/ PollInFlight(e))
  /\ last' = NoPoll
  /\ UNCHANGED <<zset, watching, dirty, issued, acked, delivered,
                 engine>>

\* a WATCH that counts as a write of the key
watchCallbackTouching(c) ==
  /\ Awaits(c, "watch")
  /\ watching' = [watching EXCEPT ![c] = TRUE]
  /\ dirty' = Touch(dirty, watching)
  /\ pipeline' = Reply(c, <<[Front(c) EXCEPT !.op = "zrangebyscore"]>>)
  /\ last' = NoPoll
  /\ UNCHANGED <<clock, zset, npolls, issued, acked, delivered,
                 overlapped, engine>>

\* a WATCH whose callback is never invoked
watchCallbackLost(c) ==
  /\ Awaits(c, "watch")
  /\ watching' = [watching EXCEPT ![c] = TRUE]
  /\ last' = NoPoll
  /\ UNCHANGED <<clock, zset, dirty, pipeline, npolls, issued, acked,
                 delivered, overlapped, engine>>

\* redisClient.watch(redisKey, cb): WATCH applied, cb issues ZRANGEBYSCORE
watchCallback(c) ==
  /\ Awaits(c, "watch")
  /\ watching' = [watching EXCEPT ![c] = TRUE]
  /\ pipeline' = Reply(c, <<[Front(c) EXCEPT !.op = "zrangebyscore"]>>)
  /\ last' = NoPoll
  /\ UNCHANGED <<clock, zset, dirty, npolls, issued, acked, delivered,
                 overlapped, engine>>

\* zrangebyscore(redisKey, 0, now, cb) with tasks.length > 0: cb issues
\* MULTI / ZREMRANGEBYSCORE / EXEC
zrangebyscoreCallback(c) ==
  /\ Awaits(c, "zrangebyscore")
  /\ LET tasks == zrangebyscore(Stored(c), 0, Front(c).now)
     IN /\ Len(tasks) > 0
        /\ pipeline' = Reply(c, <<[Front(c) EXCEPT !.op = "exec",
                                                  !.tasks = tasks]>>)
  /\ last' = NoPoll
  /\ UNCHANGED <<clock, zset, watching, dirty, npolls, issued, acked, delivered,
                 overlapped, engine>>

\* zrangebyscore(...) with no task due: cb issues UNWATCH and resolves 0
zrangebyscoreEmpty(c) ==
  /\ Awaits(c, "zrangebyscore")
  /\ LET tasks == zrangebyscore(Stored(c), 0, Front(c).now)
     IN /\ Len(tasks) = 0
        /\ last' = Settled(c, "empty", <<>>, 0, {})
        /\ pipeline' = Reply(c, <<[op |-> "unwatch"]>>)
  /\ UNCHANGED <<clock, zset, watching, dirty, npolls, issued, acked, delivered,
                 overlapped, engine>>

\* an UNWATCH that leaves the watch in place
unwatchKept(c) ==
  /\ Awaits(c, "unwatch")
  /\ pipeline' = Reply(c, <<>>)
  /\ last' = NoPoll
  /\ UNCHANGED <<clock, zset, watching, dirty, npolls, issued, acked, delivered,
                 overlapped, engine>>

\* UNWATCH applied (no callback registered)
unwatch(c) ==
  /\ Awaits(c, "unwatch")
  /\ watching' = [watching EXCEPT ![c] = FALSE]
  /\ dirty' = [dirty EXCEPT ![c] = FALSE]
  /\ pipeline' = Reply(c, <<>>)
  /\ last' = NoPoll
  /\ UNCHANGED <<clock, zset, npolls, issued, acked, delivered, overlapped, engine>>

\* an aborted EXEC that leaves the connection flagged
execWatchErrorKept(c) ==
  /\ Awaits(c, "exec")
  /\ dirty[c]
  /\ last' = Settled(c, "aborted", <<>>, 0, {})
  /\ pipeline' = Reply(c, <<>>)
  /\ UNCHANGED <<clock, zset, watching, dirty, npolls, issued, acked, delivered,
                 overlapped, engine>>

\* an aborted poll() that starts over with a new WATCH
execWatchErrorRetried(c) ==
  /\ Awaits(c, "exec")
  /\ dirty[c]
  /\ watching' = [watching EXCEPT ![c] = FALSE]
  /\ dirty' = [dirty EXCEPT ![c] = FALSE]
  /\ last' = NoPoll
  /\ pipeline' = Reply(c, <<[Front(c) EXCEPT !.op = "watch", !.tasks = <<>>,
                                             !.touched = FALSE]>>)
  /\ UNCHANGED <<clock, zset, npolls, issued, acked, delivered, overlapped, engine>>

\* EXEC refused because the WATCHed key was touched: execError is a
\* WatchError, the poll resolves 0
execWatchError(c) ==
  /\ Awaits(c, "exec")
  /\ dirty[c]
  /\ watching' = [watching EXCEPT ![c] = FALSE]
  /\ dirty' = [dirty EXCEPT ![c] = FALSE]
  /\ last' = Settled(c, "aborted", <<>>, 0, {})
  /\ pipeline' = Reply(c, <<>>)
  /\ UNCHANGED <<clock, zset, npolls, issued, acked, delivered, overlapped, engine>>

\* a commit that hands nothing to the callback
DeliveriesNone(tasks) == <<>>

\* the tasks handed to callback(data, id, due), in the order of the snapshot
\* tasks.map(t => JSON.parse(t)) throws at a member it cannot parse, before
\* forEach invokes the callback for any task
Deliveries(tasks) ==
  IF \A k \in 1..Len(tasks) : Decodable(tasks[k])
  THEN [k \in 1..Len(tasks) |-> parse(tasks[k])]
  ELSE <<>>

\* the callback invocations of one batch, counted per task id
Count(d, e, calls) ==
  [id \in TaskIds |->
     [x \in Engines |->
        d[id][x] + IF x = e
                   THEN Cardinality({k \in 1..Len(calls) : calls[k].id = id})
                   ELSE 0]]

\* EXEC applied: results[0] is the number of members removed; the snapshot
\* read by zrangebyscore is parsed and handed to the callback
execCallback(c) ==
  /\ Awaits(c, "exec")
  /\ ~dirty[c]
  /\ LET results == Cardinality(InRange(Stored(c), 0, Front(c).now))
         calls == Deliveries(Front(c).tasks)
     IN /\ zset' = (zset \ Stored(c))
                      \cup zremrangebyscore(Stored(c), 0, Front(c).now)
        /\ watching' = [watching EXCEPT ![c] = FALSE]
        /\ dirty' = [(IF results > 0 THEN Touch(dirty, Watchers(c)) ELSE dirty)
                        EXCEPT ![c] = FALSE]
        /\ delivered' = Count(delivered, c, calls)
        /\ last' = Settled(c, IF \A k \in 1..Len(Front(c).tasks) :
                                     Decodable(Front(c).tasks[k])
                               THEN "committed" ELSE "threw",
                            calls, results, zset \ zset')
        /\ pipeline' = IF results > 0
                       THEN Written(Reply(c, <<>>), redisKey(queueId[c]))
                       ELSE Reply(c, <<>>)
  /\ UNCHANGED <<clock, npolls, issued, acked, overlapped, engine>>

\* the store applies the EXEC; its reply is on the way to the client
execApplied(c) ==
  /\ Awaits(c, "exec")
  /\ ~dirty[c]
  /\ LET results == Cardinality(InRange(Stored(c), 0, Front(c).now))
         applied == [op |-> "execReply", now |-> Front(c).now,
                     tasks |-> Front(c).tasks, touched |-> Front(c).touched,
                     results |-> results,
                     removed |-> InRange(Stored(c), 0, Front(c).now)]
         waiting == [pipeline EXCEPT ![c] = <<applied>> \o Tail(@)]
     IN /\ zset' = (zset \ Stored(c))
                      \cup zremrangebyscore(Stored(c), 0, Front(c).now)
        /\ watching' = [watching EXCEPT ![c] = FALSE]
        /\ dirty' = [(IF results > 0 THEN Touch(dirty, Watchers(c)) ELSE dirty)
                        EXCEPT ![c] = FALSE]
        /\ pipeline' = IF results > 0
                       THEN Written(waiting, redisKey(queueId[c]))
                       ELSE waiting
  /\ last' = NoPoll
  /\ UNCHANGED <<clock, npolls, issued, acked, delivered, overlapped, engine>>

\* the reply of an applied EXEC reaches the exec callback
execReplied(c) ==
  /\ Awaits(c, "execReply")
  /\ LET calls == Deliveries(Front(c).tasks)
     IN /\ delivered' = Count(delivered, c, calls)
        /\ last' = Settled(c, "committed", calls, Front(c).results,
                            Front(c).removed)
  /\ pipeline' = Reply(c, <<>>)
  /\ UNCHANGED <<clock, zset, watching, dirty, npolls, issued, acked,
                 overlapped, engine>>

\* a forEach that catches what the callback raises and goes on
execCallbackCaught(c, k) ==
  /\ Awaits(c, "exec")
  /\ ~dirty[c]
  /\ k <= Len(Front(c).tasks)
  /\ \A j \in 1..Len(Front(c).tasks) : Decodable(Front(c).tasks[j])
  /\ LET results == Cardinality(InRange(Stored(c), 0, Front(c).now))
         calls == Deliveries(Front(c).tasks)
     IN /\ zset' = (zset \ Stored(c))
                      \cup zremrangebyscore(Stored(c), 0, Front(c).now)
        /\ watching' = [watching EXCEPT ![c] = FALSE]
        /\ dirty' = [(IF results > 0 THEN Touch(dirty, Watchers(c)) ELSE dirty)
                        EXCEPT ![c] = FALSE]
        /\ delivered' = Count(delivered, c, calls)
        /\ last' = [Settled(c, "raised", calls, 0, zset \ zset')
                      EXCEPT !.raisedAt = k]
        /\ pipeline' = IF results > 0
                       THEN Written(Reply(c, <<>>), redisKey(queueId[c]))
                       ELSE Reply(c, <<>>)
  /\ UNCHANGED <<clock, npolls, issued, acked, overlapped, engine>>

\* EXEC applied and the callback raises an exception at the k-th task of the
\* batch: nothing catches it, forEach stops there and resolve() is not
\* reached
execCallbackRaised(c, k) ==
  /\ Awaits(c, "exec")
  /\ ~dirty[c]
  /\ k <= Len(Front(c).tasks)
  /\ \A j \in 1..Len(Front(c).tasks) : Decodable(Front(c).tasks[j])
  /\ LET results == Cardinality(InRange(Stored(c), 0, Front(c).now))
         calls == SubSeq(Deliveries(Front(c).tasks), 1, k)
     IN /\ zset' = (zset \ Stored(c))
                      \cup zremrangebyscore(Stored(c), 0, Front(c).now)
        /\ watching' = [watching EXCEPT ![c] = FALSE]
        /\ dirty' = [(IF results > 0 THEN Touch(dirty, Watchers(c)) ELSE dirty)
                        EXCEPT ![c] = FALSE]
        /\ delivered' = Count(delivered, c, calls)
        /\ last' = [Settled(c, "raised", calls, 0, zset \ zset')
                      EXCEPT !.raisedAt = k]
        /\ pipeline' = IF results > 0
                       THEN Written(Reply(c, <<>>), redisKey(queueId[c]))
                       ELSE Reply(c, <<>>)
  /\ UNCHANGED <<clock, npolls, issued, acked, overlapped, engine>>

\* --------------------------------------------------------------------- add
\* a check of delayMs alone
validateDelayOnly(delayMs, data) ==
  IF typeof(delayMs) # "number" \/ LessOrEqualZero(delayMs) THEN "delayMs"
  ELSE "ok"

\* the checks add() makes on its arguments, and the error it throws
validate(delayMs, data) ==
  IF typeof(delayMs) # "number" \/ LessOrEqualZero(delayMs) THEN "delayMs"
  ELSE IF data = Undefined \/ data = NoData THEN "data"
  ELSE "ok"

\* a call of engine e that threw error, in the state it found
Threw(op, e, args, error) ==
  [op |-> op, eng |-> e, args |-> args, ret |-> "none", thrown |-> error,
   redisClient |-> redisClient[e], pollIntervalId |-> pollIntervalId[e],
   timers |-> timers[e], instance |-> NoInstance, library |-> <<>>]

\* a call of engine e that returned ret, in the state it found
Returned(op, e, ret) ==
  [op |-> op, eng |-> e, args |-> <<>>, ret |-> ret, thrown |-> "none",
   redisClient |-> redisClient[e], pollIntervalId |-> pollIntervalId[e],
   timers |-> timers[e], instance |-> NoInstance, library |-> <<>>]

\* add(delayMs, data): validate, due time, fresh id, serialize, issue ZADD
add(e, t, delayMs, data, uuid) ==
  /\ FirstCall(e)
  /\ IF validate(delayMs, data) # "ok"
     THEN /\ call' = Threw("add", e, <<delayMs, data>>, validate(delayMs, data))
          /\ UNCHANGED <<clock, issued, pipeline>>
     ELSE /\ isReady(e)
          /\ uuid \notin issued
          /\ clock' = t
          /\ LET delayedTime == Plus(t, delayMs)
                 taskId == uuid
                 task == stringify(taskId, delayedTime, data)
             IN /\ issued' = issued \cup {taskId}
                /\ pipeline' = Send(e, [op |-> "zadd", id |-> taskId, at |-> t,
                                        delayMs |-> delayMs, data |-> data,
                                        score |-> delayedTime, member |-> task])
          /\ call' = NoCall
  /\ last' = NoPoll
  /\ UNCHANGED <<zset, watching, dirty, npolls, acked, delivered, overlapped,
                 redisClient, selfContainedResis, pollIntervalId, timers,
                 closing, queueId>>

\* an add() that resolves although nothing was inserted
addToRedisUnstored(c) ==
  /\ Awaits(c, "zadd")
  /\ acked' = acked \cup {Front(c).id}
  /\ pipeline' = Reply(c, <<>>)
  /\ last' = NoPoll
  /\ UNCHANGED <<clock, zset, watching, dirty, npolls, issued, delivered,
                 overlapped, engine>>

\* zadd(redisKey, delayedTime, task, cb): ZADD applied, add() resolves taskId
addToRedis(c) ==
  /\ Awaits(c, "zadd")
  /\ Front(c).score # NaNTime
  /\ zset' = zset \cup {[key |-> redisKey(queueId[c]), score |-> Front(c).score,
                          member |-> Front(c).member]}
  /\ dirty' = Touch(dirty, Watchers(c))
  /\ acked' = acked \cup {Front(c).id}
  /\ pipeline' = Written(Reply(c, <<>>), redisKey(queueId[c]))
  /\ last' = NoPoll
  /\ UNCHANGED <<clock, watching, npolls, issued, delivered, overlapped, engine>>

\* ------------------------------------------------------------ store errors
\* a failed command that is issued again
RejectedAndRetried(c, op) ==
  /\ Awaits(c, op)
  /\ pipeline' = Reply(c, <<Front(c)>>)
  /\ UNCHANGED <<clock, zset, watching, dirty, npolls, issued, acked, delivered,
                 overlapped, engine>>

\* the command fails before it is applied; the callback rejects the promise
\* and issues nothing further
Rejected(c, op) ==
  /\ Awaits(c, op)
  /\ pipeline' = Reply(c, <<>>)
  /\ UNCHANGED <<clock, zset, watching, dirty, npolls, issued, acked, delivered,
                 overlapped, engine>>

watchError(c) ==
  Rejected(c, "watch") /\ last' = Settled(c, "rejected", <<>>, 0, {})

zrangeErr(c) ==
  Rejected(c, "zrangebyscore") /\ last' = Settled(c, "rejected", <<>>, 0, {})

execError(c) ==
  Rejected(c, "exec") /\ last' = Settled(c, "rejected", <<>>, 0, {})

addToRedisError(c) == Rejected(c, "zadd") /\ last' = NoPoll

\* ZADD with a score that is no valid float: the store replies an error
addToRedisNotFloat(c) ==
  /\ Awaits(c, "zadd")
  /\ Front(c).score = NaNTime
  /\ Rejected(c, "zadd")
  /\ last' = NoPoll

\* --------------------------------------------------------------- lifecycle
queue == <<clock, zset, watching, dirty, pipeline, npolls, issued, acked,
           delivered, overlapped>>

\* a connect() that calls redisClient.connect() whatever the client's state
connectAlways(e) ==
  /\ redisClient[e] # "null"
  /\ redisClient' = [redisClient EXCEPT ![e] = "connecting"]
  /\ call' = Returned("connect", e, "pending")
  /\ last' = NoPoll
  /\ UNCHANGED <<queue, queueId, selfContainedResis, pollIntervalId, timers,
                 closing>>

\* connect(): if the client is not ready, wait for 'ready' and call
\* redisClient.connect(); if it is ready, resolve at once
connect(e) ==
  /\ IF redisClient[e] = "null"
     THEN /\ call' = Threw("connect", e, <<>>, "TypeError")
          /\ UNCHANGED redisClient
     ELSE IF ~isReady(e)
     THEN /\ redisClient' = [redisClient EXCEPT ![e] = "connecting"]
          /\ call' = Returned("connect", e, "pending")
     ELSE /\ call' = Returned("connect", e, "resolved")
          /\ UNCHANGED redisClient
  /\ last' = NoPoll
  /\ UNCHANGED <<queue, queueId, selfContainedResis, pollIntervalId, timers,
                 closing>>

\* the client emits 'ready'
ready(e) ==
  /\ redisClient[e] = "connecting"
  /\ redisClient' = [redisClient EXCEPT ![e] = "ready"]
  /\ call' = NoCall
  /\ last' = NoPoll
  /\ UNCHANGED <<queue, queueId, selfContainedResis, pollIntervalId, timers,
                 closing>>

\* the handle setInterval() returns: one that no running interval has
NewTimer(e) ==
  CHOOSE i \in 1..MaxTimers :
     i \notin timers[e] /\ \A j \in 1..(i - 1) : j \in timers[e]

\* a start() that does not look at the client's state
startUnchecked(e) ==
  /\ Cardinality(timers[e]) < MaxTimers
  /\ pollIntervalId' = [pollIntervalId EXCEPT ![e] = NewTimer(e)]
  /\ timers' = [timers EXCEPT ![e] = @ \cup {NewTimer(e)}]
  /\ call' = Returned("start", e, "true")
  /\ last' = NoPoll
  /\ UNCHANGED <<queue, queueId, redisClient, selfContainedResis, closing>>

\* start(): if the client is ready, setInterval(poll, pollIntervalMs) and
\* return true; else return false
start(e) ==
  /\ IF redisClient[e] = "null"
     THEN /\ call' = Threw("start", e, <<>>, "TypeError")
          /\ UNCHANGED <<pollIntervalId, timers>>
     ELSE IF isReady(e)
     THEN /\ Cardinality(timers[e]) < MaxTimers
          /\ pollIntervalId' = [pollIntervalId EXCEPT ![e] = NewTimer(e)]
          /\ timers' = [timers EXCEPT ![e] = @ \cup {NewTimer(e)}]
          /\ call' = Returned("start", e, "true")
     ELSE /\ call' = Returned("start", e, "false")
          /\ UNCHANGED <<pollIntervalId, timers>>
  /\ last' = NoPoll
  /\ UNCHANGED <<queue, queueId, redisClient, selfContainedResis, closing>>

\* clearInterval(pollIntervalId); pollIntervalId = null
Stopped(e) ==
  /\ timers' = [timers EXCEPT ![e] = @ \ {pollIntervalId[e]}]
  /\ pollIntervalId' = [pollIntervalId EXCEPT ![e] = NoTimer]

\* stop()
stop(e) ==
  /\ Stopped(e)
  /\ call' = Returned("stop", e, "undefined")
  /\ last' = NoPoll
  /\ UNCHANGED <<queue, queueId, redisClient, selfContainedResis, closing>>

\* close(): stop(), then disconnect() if the client is the engine's own and
\* is ready; the commands in flight on the connection are dropped with it
close(e) ==
  /\ Stopped(e)
  /\ IF selfContainedResis[e] /\ redisClient[e] = "null"
     THEN /\ call' = Threw("close", e, <<>>, "TypeError")
          /\ UNCHANGED <<redisClient, closing, pipeline, watching, dirty>>
     ELSE IF selfContainedResis[e] /\ isReady(e)
     THEN /\ redisClient' = [redisClient EXCEPT ![e] = "closed"]
          /\ closing' = [closing EXCEPT ![e] = TRUE]
          /\ pipeline' = [pipeline EXCEPT ![e] = <<>>]
          /\ watching' = [watching EXCEPT ![e] = FALSE]
          /\ dirty' = [dirty EXCEPT ![e] = FALSE]
          /\ call' = Returned("close", e, "pending")
     ELSE /\ call' = Returned("close", e, "resolved")
          /\ UNCHANGED <<redisClient, closing, pipeline, watching, dirty>>
  /\ last' = NoPoll
  /\ UNCHANGED <<clock, zset, npolls, issued, acked, delivered, overlapped,
                 selfContainedResis, queueId>>

\* disconnect() has resolved: this.redisClient = null
closeDone(e) ==
  /\ closing[e]
  /\ closing' = [closing EXCEPT ![e] = FALSE]
  /\ redisClient' = [redisClient EXCEPT ![e] = "null"]
  /\ call' = NoCall
  /\ last' = NoPoll
  /\ UNCHANGED <<queue, queueId, selfContainedResis, pollIntervalId, timers>>

\* an interval of the engine fires: poll()
tick(e, t) ==
  /\ timers[e] # {}
  /\ poll(e, t)

\* an interval fires on an engine whose client is closed or null: poll()
\* is rejected by the client, or throws on this.redisClient.watch
pollUnready(e) ==
  /\ timers[e] # {}
  /\ redisClient[e] \in {"closed", "null"}
  /\ call' = IF redisClient[e] = "null" THEN Threw("poll", e, <<>>, "TypeError")
             ELSE Returned("poll", e, "rejected")
  /\ last' = NoPoll
  /\ UNCHANGED <<queue, queueId, redisClient, selfContainedResis, pollIntervalId,
                 timers,
                 closing>>

\* the interval calls poll() when the poll() of the cycle before has settled
\* and the connection has answered all it was sent; the cycles are not
\* counted
cycle(e, t) ==
  /\ isReady(e)
  /\ pipeline[e] = <<>>
  /\ clock' = t
  /\ pipeline' = Send(e, [op |-> "watch", now |-> t, tasks |-> <<>>,
                          touched |-> FALSE])
  /\ last' = NoPoll
  /\ UNCHANGED <<zset, watching, dirty, npolls, issued, acked, delivered,
                 overlapped, engine>>

\* what a caller may pass to add(delayMs, data)
Arguments ==
  {Number(1), Number(0), Number(0 - 1), NaN, Infinity, NotANumber}
     \X (Payloads \cup {Undefined, NoData})

\* ------------------------------------------------------------- constructor
String(s) == [type |-> "string", s |-> s]

\* a settings.id that is left out, and one that is a boolean
NoId == [type |-> "undefined", s |-> ""]

BooleanId == [type |-> "boolean", s |-> "true"]

\* settings.redis: a client (it has a connect function), an object of
\* connection parameters, null, left out, false
RedisSettings == {"client", "parameters", "null", "undefined", "false"}

typeofRedis(v) ==
  IF v \in {"client", "parameters", "null"} THEN "object"
  ELSE IF v = "false" THEN "boolean"
  ELSE "undefined"

\* typeof settings.redis?.connect
typeofConnect(v) == IF v = "client" THEN "function" ELSE "undefined"

\* settings.callback: a function, left out, true
CallbackSettings == {"function", "undefined", "true"}

\* a check that takes every callback for a function
typeofCallbackAny(v) == "function"

typeofCallback(v) ==
  IF v = "function" THEN "function"
  ELSE IF v = "true" THEN "boolean"
  ELSE "undefined"

\* settings.options.pollIntervalMs left out (or settings.options left out)
NoInterval == [type |-> "undefined", n |-> 0]

PollIntervalSettings ==
  {Number(2), Number(0), Number(0 - 1), NaN, Infinity, NotANumber, NoInterval}

\* v > 0: false for NaN, true for Infinity
GreaterThanZero(v) ==
  \/ v.type = "number" /\ v.n > 0
  \/ v.type = "Infinity"

\* new DelayedTasks(): no argument
NoSettings ==
  [type |-> "undefined", id |-> NoId, redis |-> "undefined",
   callback |-> "undefined", pollIntervalMs |-> NoInterval]

\* new DelayedTasks(null)
NullSettings == [NoSettings EXCEPT !.type = "null"]

Settings ==
  {NoSettings, NullSettings} \cup
  [type : {"object"}, id : {String(q) : q \in QueueIds} \cup {NoId, BooleanId},
   redis : RedisSettings, callback : CallbackSettings,
   pollIntervalMs : PollIntervalSettings]

typeofSettings(settings) ==
  IF settings.type = "null" THEN "object" ELSE settings.type

\* a period taken from the settings whenever it is a number
pollIntervalMsUnchecked(v) ==
  IF typeof(v) = "number" THEN v ELSE Number(DefaultPollIntervalMs)

\* this.pollIntervalMs
pollIntervalMs(v) ==
  IF typeof(v) = "number" /\ GreaterThanZero(v) THEN v
  ELSE Number(DefaultPollIntervalMs)

\* the constructor threw error after the calls it made on the redis library
Throw(error, library) ==
  [thrown |-> error, instance |-> NoInstance, library |-> library]

\* the constructor, from the check of the callback on
construct(settings, client, library) ==
  IF typeofCallback(settings.callback) # "function"
  THEN Throw("Invalid callback function specified", library)
  ELSE [thrown |-> "none",
        instance |->
          [id |-> settings.id.s,
           redisClient |-> client,
           selfContainedResis |-> client = "createClient",
           callback |-> settings.callback,
           redisKey |-> redisKey(settings.id.s),
           pollIntervalMs |-> pollIntervalMs(settings.pollIntervalMs),
           pollIntervalId |-> NoTimer],
        library |-> library]

\* new DelayedTasks(settings): the error thrown or the object made, and the
\* calls made on the redis library and on the client
constructor(settings) ==
  IF typeofSettings(settings) # "object"
  THEN Throw("No constructor settings specified", <<>>)
  ELSE IF settings.type = "null"
  THEN Throw("Cannot read properties of null", <<>>)
  ELSE IF typeof(settings.id) # "string"
  THEN Throw("Invalid queue ID specified", <<>>)
  ELSE IF typeofConnect(settings.redis) = "function"
  THEN construct(settings, "client", <<>>)
  ELSE IF typeofRedis(settings.redis) = "object"
  THEN IF settings.redis = "null"
       THEN Throw("Cannot set properties of null", <<>>)
       ELSE construct(settings, "createClient", <<"createClient", "on">>)
  ELSE Throw("Invalid redis connection options", <<>>)

\* the call new DelayedTasks(settings)
new(settings) ==
  /\ LET r == constructor(settings)
     IN call' = [NoCall EXCEPT !.op = "constructor", !.args = <<settings>>,
                               !.thrown = r.thrown, !.instance = r.instance,
                               !.library = r.library]
  /\ last' = NoPoll
  /\ UNCHANGED <<queue, queueId, redisClient, selfContainedResis, pollIntervalId,
                 timers, closing>>

\* ------------------------------------------------------------------- spec
Next ==
  \/ \E e \in Engines, t \in Times : poll(e, t)
  \/ \E c \in Engines : watchCallback(c)
  \/ \E c \in Engines : zrangebyscoreCallback(c)
  \/ \E c \in Engines : zrangebyscoreEmpty(c)
  \/ \E c \in Engines : unwatch(c)
  \/ \E c \in Engines : execWatchError(c)
  \/ \E c \in Engines : execCallback(c)
  \/ \E e \in Engines, t \in Times, d \in Delays, data \in Payloads,
        id \in TaskIds : add(e, t, Number(d), data, id)
  \/ \E c \in Engines : addToRedis(c)

Fault ==
  \/ \E c \in Engines : watchError(c)
  \/ \E c \in Engines : zrangeErr(c)
  \/ \E c \in Engines : execError(c)
  \/ \E c \in Engines : addToRedisError(c)

\* the calls on the engine objects; their timers poll an empty set
NextEngine ==
  \/ \E e \in Engines : connect(e)
  \/ \E e \in Engines : ready(e)
  \/ \E e \in Engines : start(e)
  \/ \E e \in Engines : stop(e)
  \/ \E e \in Engines : close(e)
  \/ \E e \in Engines : closeDone(e)
  \/ \E e \in Engines, t \in Times : tick(e, t)
  \/ \E e \in Engines : pollUnready(e)
  \/ \E c \in Engines : watchCallback(c)
  \/ \E c \in Engines : zrangebyscoreEmpty(c)
  \/ \E c \in Engines : unwatch(c)

\* the store answers every command
Spec == Init /\ [][Next]_vars

\* the engine objects from construction on
SpecEngine == InitEngine /\ [][NextEngine]_vars

\* add() called with any arguments on connected engines
NextArguments ==
  \/ \E e \in Engines, t \in Times, a \in Arguments, id \in TaskIds :
        add(e, t, a[1], a[2], id)
  \/ \E c \in Engines : addToRedis(c)
  \/ \E c \in Engines : addToRedisNotFloat(c)

SpecArguments == Init /\ [][NextArguments]_vars

\* the store may fail a command
SpecFaulty == Init /\ [][Next \/ Fault]_vars

\* poll() calls alone, on a store that holds records
NextDrain ==
  \/ \E e \in Engines, t \in Times : poll(e, t)
  \/ \E c \in Engines : watchCallback(c)
  \/ \E c \in Engines : zrangebyscoreCallback(c)
  \/ \E c \in Engines : zrangebyscoreEmpty(c)
  \/ \E c \in Engines : unwatch(c)
  \/ \E c \in Engines : execWatchError(c)
  \/ \E c \in Engines : execCallback(c)

SpecDrain == InitDrain /\ [][NextDrain]_vars

\* the callback may raise an exception
Raise ==
  \E c \in Engines, k \in 1..Cardinality(TaskIds) : execCallbackRaised(c, k)

SpecRaising == Init /\ [][Next \/ Raise]_vars

\* close() is called while poll() and add() calls are in flight
NextClosing ==
  \/ Next
  \/ \E c \in Engines : execApplied(c)
  \/ \E c \in Engines : execReplied(c)
  \/ \E e \in Engines : close(e)
  \/ \E e \in Engines : closeDone(e)

SpecClosing == Init /\ [][NextClosing]_vars

\* the queue with a member in it that the engines did not write
SpecForeign == InitForeign /\ [][Next]_vars

\* engines of one queue and engines of two queues
SpecIdentity == InitIdentity /\ [][Next]_vars

\* the store answers the command at the head of connection c's pipeline and
\* the client invokes its callback with the reply
Answer(c) ==
  \/ watchCallback(c)
  \/ zrangebyscoreCallback(c) \/ zrangebyscoreEmpty(c)
  \/ unwatch(c)
  \/ execWatchError(c) \/ execCallback(c)
  \/ addToRedis(c)

\* a command may fail, but none sent on a connected client stays unanswered
\* for ever
SpecLive ==
  Init /\ [][Next \/ Fault]_vars /\ \A c \in Engines : WF_vars(Answer(c))

\* add() calls and the cycles of intervals that never stop
NextDeferral ==
  \/ \E e \in Engines, t \in clock..MaxClock : cycle(e, t)
  \/ \E c \in Engines : watchCallback(c)
  \/ \E c \in Engines : zrangebyscoreCallback(c)
  \/ \E c \in Engines : zrangebyscoreEmpty(c)
  \/ \E c \in Engines : unwatch(c)
  \/ \E c \in Engines : execWatchError(c)
  \/ \E c \in Engines : execCallback(c)
  \/ \E e \in Engines, t \in Times, d \in Delays, data \in Payloads,
        i \in TaskIds : add(e, t, Number(d), data, i)
  \/ \E c \in Engines : addToRedis(c)

\* every interval keeps firing and the store answers every command
SpecDeferral ==
  /\ Init /\ [][NextDeferral]_vars
  /\ \A e \in Engines : WF_vars(\E t \in clock..MaxClock : cycle(e, t))
  /\ \A c \in Engines : WF_vars(Answer(c))

\* objects are constructed from any settings
NextConstructor == \E settings \in Settings : new(settings)

SpecConstructor == InitEngine /\ [][NextConstructor]_vars

\* ------------------------------------------------------------- properties
RECURSIVE SumOver(_, _)
SumOver(S, f) ==
  IF S = {} THEN 0
  ELSE LET x == CHOOSE y \in S : TRUE IN f[x] + SumOver(S \ {x}, f)

\* callback invocations for one task, over all engines
Total(id) == SumOver(Engines, delivered[id])

InStore(id) == \E x \in zset : parse(x.member).id = id

SnapshotIds(p) == {parse(p.tasks[k]).id : k \in 1..Len(p.tasks)}

CallIds(p) == {p.calls[k].id : k \in 1..Len(p.calls)}

Resolved(p) == p.outcome \in {"empty", "aborted", "committed"}

\* C1: engines on their own connections, each with at most one poll() in
\* flight: no task is handed to a callback more than once, over all engines.
C1_NoDoubleDelivery ==
  ~overlapped => \A id \in TaskIds : Total(id) <= 1

\* two engines read the same due task; one delivered it, the other aborted
C1_Witness ==
  /\ ~overlapped
  /\ last.outcome = "aborted"
  /\ \E id \in SnapshotIds(last), e \in Engines \ {last.eng} :
       delivered[id][e] = 1 /\ Total(id) = 1

\* C2: two overlapping poll() calls of one engine never both deliver the
\* same task.
C2_NoDoubleDeliverySameEngine ==
  \A id \in TaskIds, e \in Engines : delivered[id][e] <= 1

\* C3: a poll() whose key was written after its WATCH and before its commit
\* resolves 0, invokes no callback and removes nothing.
C3_TouchedPollClaimsNothing ==
  (Resolved(last) /\ last.touched) =>
     (last.result = 0 /\ last.calls = <<>> /\ last.removed = {})

\* C3 where no engine overlaps its own poll() calls
C3_Solo == ~overlapped => C3_TouchedPollClaimsNothing

\* C4: every task whose add() has resolved is in the store or has been
\* handed to a callback.
C4_NoTaskLost ==
  \A id \in acked : InStore(id) \/ Total(id) >= 1

\* C4 where no engine overlaps its own poll() calls
C4_Solo == ~overlapped => C4_NoTaskLost

\* C5: the number a poll() resolves with is the number of members it removed
\* and the number of callback invocations it made.
C5_ResultCountsRemovedAndCalls ==
  Resolved(last) =>
     (last.result = Cardinality(last.removed) /\ last.result = Len(last.calls))

\* C5 where no engine overlaps its own poll() calls
C5_Solo == ~overlapped => C5_ResultCountsRemovedAndCalls

PendingAdds ==
  UNION {{pipeline[c][k] : k \in {j \in 1..Len(pipeline[c]) :
                                    pipeline[c][j].op = "zadd"}} : c \in Engines}

\* C6: no task is handed to the callback before its due time: the now of the
\* delivering poll() is at least the task's due, and the due a record carries
\* is the time read by its add() plus delayMs.
C6_NotBeforeDue ==
  /\ \A k \in 1..Len(last.calls) : last.calls[k].due <= last.now
  /\ \A a \in PendingAdds :
       a.score = a.at + a.delayMs.n /\ parse(a.member).due = a.score
  /\ \A x \in zset : parse(x.member).due = x.score

\* a task is delivered by a poll() whose now is later than its due, another
\* one exactly at its due
C6_Witness ==
  /\ last.outcome = "committed"
  /\ \E k \in 1..Len(last.calls) : last.calls[k].due < last.now

\* C7: poll() neither removes nor delivers a task whose due is greater than
\* its now, whatever its outcome.
C7_NonDueUntouched ==
  last.outcome # "none" =>
     /\ \A x \in last.removed : x.score <= last.now
     /\ \A k \in 1..Len(last.calls) : last.calls[k].due <= last.now
     /\ last.outcome # "committed" => last.removed = {} /\ last.calls = <<>>

\* a poll() committed a batch and a task that is not yet due is still stored
C7_Witness ==
  /\ last.outcome = "committed"
  /\ last.removed # {}
  /\ \E x \in zset : x.score > last.now

\* C8: a poll() that commits with now equal to a task's due removes that
\* task and hands it to the callback.
C8_BoundaryInclusive ==
  last.outcome = "committed" =>
     /\ \A x \in last.removed :
          x.score = last.now => parse(x.member).id \in CallIds(last)
     /\ \A k \in 1..Len(last.tasks) :
          parse(last.tasks[k]).due = last.now =>
             \E x \in last.removed : x.member = last.tasks[k]

\* C8 where no engine overlaps its own poll() calls
C8_Solo == ~overlapped => C8_BoundaryInclusive

\* C9: within one poll() the callback invocations are in ascending due order.
C9_AscendingDue ==
  \A k \in 1..(Len(last.calls) - 1) : last.calls[k].due <= last.calls[k + 1].due

\* two tasks of different due times delivered by one poll(), the later id first
C9_Witness ==
  /\ Len(last.calls) = 2
  /\ last.calls[1].due < last.calls[2].due
  /\ last.calls[1].id > last.calls[2].id

PositiveFinite(v) == v.type = "number" /\ v.n > 0

Members(z) == {x.member : x \in z}

\* C11: an add() that succeeds inserts exactly one new member; its score is
\* the due written in it, the due is the time read by the call plus delayMs,
\* its id is carried by no earlier record, and the other members stay.
C11_AddInsertsOneRecord ==
  [][\A c \in Engines : addToRedis(c) =>
        LET a == Front(c)
            x == [key |-> <<"delayed:", queueId[c]>>, score |-> a.score,
                  member |-> a.member]
        IN /\ x \notin zset
           /\ zset' = zset \cup {x}
           /\ x.score = x.member[4]
           /\ PositiveFinite(a.delayMs) => x.member[4] = a.at + a.delayMs.n
           /\ \A y \in zset : y.member[2] # a.id
           /\ a.id \notin acked
           /\ Total(a.id) = 0]_vars

\* C11 for the calls whose delayMs is a positive finite number
C11_FiniteDelay ==
  [][\A c \in Engines : (addToRedis(c) /\ PositiveFinite(Front(c).delayMs)) =>
        LET a == Front(c)
            x == [key |-> <<"delayed:", queueId[c]>>, score |-> a.score,
                  member |-> a.member]
        IN /\ x \notin zset
           /\ zset' = zset \cup {x}
           /\ x.score = x.member[4]
           /\ x.member[4] = a.at + a.delayMs.n
           /\ \A y \in zset : y.member[2] # a.id
           /\ a.id \notin acked
           /\ Total(a.id) = 0]_vars

\* C12: add() with a delayMs that is not a strictly positive finite number
\* throws the delay error; no ZADD is issued for it and nothing is stored.
C12_InvalidDelayRejected ==
  /\ (call.op = "add" /\ ~PositiveFinite(call.args[1])) => call.thrown = "delayMs"
  /\ \A a \in PendingAdds : PositiveFinite(a.delayMs)
  /\ \A x \in zset : x.score < InfiniteTime

\* C13: add() with a valid delay and data undefined or null throws the data
\* error and returns no id; no ZADD is issued for it and nothing is stored.
C13_InvalidDataRejected ==
  /\ (call.op = "add" /\ PositiveFinite(call.args[1])
        /\ call.args[2] \in {Undefined, NoData}) =>
        call.thrown = "data" /\ call.ret = "none"
  /\ \A a \in PendingAdds : a.data \notin {Undefined, NoData}
  /\ \A m \in Members(zset) : m[6] \notin {Undefined, NoData}

\* add(1, null) has thrown while a record is stored and another ZADD is on
\* its way
C13_Witness ==
  /\ call.op = "add" /\ call.thrown = "data"
  /\ call.args = <<Number(1), NoData>>
  /\ zset # {}
  /\ PendingAdds # {}

\* C14: add() resolves once the store has acknowledged the insert, the record
\* being stored at that moment; when the store rejects the insert the add()
\* does not resolve, nothing is stored and the ZADD is not issued again.
C14_ResolvesAfterInsert ==
  [][/\ \A id \in acked' \ acked : InStore(id)'
     /\ \A c \in Engines : addToRedisError(c) =>
           /\ acked' = acked
           /\ zset' = zset
           /\ pipeline' = [pipeline EXCEPT ![c] = Tail(@)]]_vars

\* one add() has resolved with its record stored, another has been rejected
\* by the store and has nothing in flight
C14_Witness ==
  /\ \E id \in acked : InStore(id)
  /\ \E id \in issued \ acked :
        /\ ~InStore(id)
        /\ \A a \in PendingAdds : a.id # id

\* the record add() writes for its arguments
C15_Encoded ==
  \A a \in PendingAdds :
     a.member[2] = a.id /\ a.member[4] = a.at + a.delayMs.n /\ a.member[6] = a.data

\* the callback arguments of a batch against the members read
C15_Decoded ==
  \A k \in 1..Len(last.calls) :
     /\ last.calls[k].id = last.tasks[k][2]
     /\ last.calls[k].due = last.tasks[k][4]
     /\ last.calls[k].data = last.tasks[k][6]

C16_StoreErrorEndsPoll ==
  [][\A c \in Engines : (watchError(c) \/ zrangeErr(c) \/ execError(c)) =>
        /\ last'.outcome = "rejected"
        /\ last'.calls = <<>>
        /\ delivered' = delivered
        /\ zset' = zset
        /\ pipeline' = [pipeline EXCEPT ![c] = Tail(@)]]_vars

\* the EXEC of a poll() that had read a batch has failed
C16_Witness ==
  /\ last.outcome = "rejected"
  /\ last.tasks # <<>>
  /\ \A k \in 1..Len(last.tasks) : last.tasks[k] \in Members(zset)

\* C17: start() returns true and sets an interval exactly when the client is
\* ready at the call; on a client that is not connected it returns false,
\* throws nothing, sets no interval and leaves the handle null.
C17_StartNeedsConnection ==
  call.op = "start" =>
     /\ call.ret = "true" <=> call.redisClient = "ready"
     /\ call.ret = "true" =>
           /\ pollIntervalId[call.eng] \in timers[call.eng] \ call.timers
           /\ timers[call.eng] = call.timers \cup {pollIntervalId[call.eng]}
     /\ call.redisClient \in {"closed", "connecting"} =>
           /\ call.ret = "false" /\ call.thrown = "none"
           /\ timers[call.eng] = call.timers
           /\ pollIntervalId[call.eng] = NoTimer

\* start() has returned false on one engine after it returned true on the
\* other, whose interval runs
C17_Witness ==
  /\ call.op = "start" /\ call.ret = "false"
  /\ call.redisClient = "connecting"
  /\ \E e \in Engines \ {call.eng} :
        isReady(e) /\ pollIntervalId[e] # NoTimer /\ pollIntervalId[e] \in timers[e]

\* C18: whatever the start() calls made, an engine has at most one interval
\* running, the one its handle refers to.
C18_OneTimer ==
  \A e \in Engines :
     /\ Cardinality(timers[e]) <= 1
     /\ pollIntervalId[e] # NoTimer => timers[e] = {pollIntervalId[e]}

\* C19: after stop() the engine has no interval running, its handle is null
\* and its client is in the state it was in; stop() throws nothing.
C19_StopClearsTimer ==
  call.op = "stop" =>
     /\ call.thrown = "none"
     /\ timers[call.eng] = {}
     /\ pollIntervalId[call.eng] = NoTimer
     /\ redisClient[call.eng] = call.redisClient

\* C19 for an engine whose only interval is the one its handle refers to
C19_SingleTimer ==
  (call.op = "stop" /\ call.timers \subseteq {call.pollIntervalId}) =>
     /\ call.thrown = "none"
     /\ timers[call.eng] = {}
     /\ pollIntervalId[call.eng] = NoTimer
     /\ redisClient[call.eng] = call.redisClient

\* C20: close() leaves no interval running and the handle null; it ends the
\* connection of an engine that created its client and leaves the client of
\* any other engine as it was.
C20_CloseEndsOwnConnection ==
  (call.op = "close" /\ call.thrown = "none") =>
     /\ timers[call.eng] = {}
     /\ pollIntervalId[call.eng] = NoTimer
     /\ selfContainedResis[call.eng] => redisClient[call.eng] = "closed"
     /\ ~selfContainedResis[call.eng] => redisClient[call.eng] = call.redisClient

\* C20 for a single interval and a client that is ready or not opened
C20_ReadyOrClosed ==
  (call.op = "close" /\ call.thrown = "none"
     /\ call.timers \subseteq {call.pollIntervalId}
     /\ call.redisClient # "connecting") =>
     /\ timers[call.eng] = {}
     /\ pollIntervalId[call.eng] = NoTimer
     /\ selfContainedResis[call.eng] => redisClient[call.eng] = "closed"
     /\ ~selfContainedResis[call.eng] => redisClient[call.eng] = call.redisClient

\* C21: close() called again, in whatever state and whoever owns the client,
\* throws nothing and leaves the engine stopped and closed as it was.
C21_CloseIdempotent ==
  call.op = "close" =>
     /\ call.thrown = "none"
     /\ call.redisClient \in {"closed", "null"} =>
           redisClient[call.eng] = call.redisClient

\* C22: once close() has ended the connection of an engine that created its
\* client, start() returns false, throws nothing and sets no interval.
C22_StartAfterClose ==
  (call.op = "start" /\ selfContainedResis[call.eng]
     /\ call.redisClient \in {"closed", "null"}) =>
     /\ call.ret = "false" /\ call.thrown = "none"
     /\ timers[call.eng] = call.timers

\* C23: connect() on an engine whose client is ready resolves, does not call
\* redisClient.connect() and changes nothing of the engine or its client.
C23_ConnectIdempotent ==
  (call.op = "connect" /\ call.redisClient = "ready") =>
     /\ call.ret = "resolved" /\ call.thrown = "none"
     /\ redisClient[call.eng] = "ready"
     /\ timers[call.eng] = call.timers
     /\ pollIntervalId[call.eng] = call.pollIntervalId

\* connect() has resolved on a connected engine whose interval runs
C23_Witness ==
  /\ call.op = "connect" /\ call.ret = "resolved"
  /\ call.redisClient = "ready"
  /\ pollIntervalId[call.eng] \in timers[call.eng]

\* C24: connect() opens the connection of an engine that created its client
\* only; the client of an engine built on a supplied client is left in the
\* state it was in.
C24_ConnectOnlyOwnClient ==
  (call.op = "connect" /\ ~selfContainedResis[call.eng]) =>
     redisClient[call.eng] = call.redisClient

\* C25: an interval of an engine that created its client invokes poll() only
\* on a client that connect() has made ready and that close() has not yet
\* finished disconnecting.
C25_PollingOnlyWhileConnected ==
  (call.op = "poll" /\ selfContainedResis[call.eng]) =>
     /\ redisClient[call.eng] # "null"
     /\ redisClient[call.eng] = "closed" => closing[call.eng]

C27_ScoreIsDueUnchanged ==
  [][/\ \A x \in zset' : x.score = parse(x.member).due
     /\ \A x \in zset, y \in zset' : x.member = y.member => x.score = y.score]_vars

\* the settings the constructor is to refuse
InvalidSettings(settings) ==
  \/ settings.type # "object"
  \/ settings.id.type # "string"
  \/ settings.redis \notin {"client", "parameters"}
  \/ settings.callback # "function"

Called(name) == \E k \in 1..Len(call.library) : call.library[k] = name

\* C29: the constructor throws on settings that are missing, whose id is no
\* string, whose redis is neither a client nor an object of parameters, or
\* whose callback is no function: no object results, no interval is set and no
\* connection is opened.
C29_ConstructionFailsFast ==
  (call.op = "constructor" /\ InvalidSettings(call.args[1])) =>
     /\ call.thrown # "none"
     /\ call.instance = NoInstance
     /\ ~Called("setInterval") /\ ~Called("connect")

\* the constructor threw on the callback after it had created a client
C29_Witness ==
  /\ call.op = "constructor"
  /\ call.args[1].redis = "parameters" /\ call.args[1].callback = "true"
  /\ call.thrown = "Invalid callback function specified"
  /\ Called("createClient")

\* C30: the period of a constructed engine is the pollIntervalMs of its
\* settings when that is a number above zero and 1000 otherwise, and the
\* constructor throws for no other reason than invalid settings, whatever
\* the pollIntervalMs.
C30_PollInterval ==
  call.op = "constructor" =>
     LET configured == call.args[1].pollIntervalMs
     IN /\ call.thrown = "none" <=> ~InvalidSettings(call.args[1])
        /\ call.thrown = "none" =>
             call.instance.pollIntervalMs =
               IF \/ configured = Infinity
                  \/ configured.type = "number" /\ configured.n >= 1
               THEN configured
               ELSE Number(1000)

\* an engine was constructed with the default period from settings whose
\* pollIntervalMs is negative
C30_Witness ==
  /\ call.op = "constructor" /\ call.thrown = "none"
  /\ call.args[1].pollIntervalMs = Number(0 - 1)
  /\ call.instance.pollIntervalMs = Number(1000)

\* C28: the engines of one identity work on one sorted set, keyed 'delayed:'
\* followed by the identity, and on no other: add() inserts under that key
\* and leaves the other sets as they are, a poll() reads every due record
\* under that key, whichever engine added it, and no record under another
\* key, and removes records under that key only.
C28_OneSetPerIdentity ==
  [][\A c \in Engines :
        LET Own(z) == {x \in z : x.key = <<"delayed:", queueId[c]>>}
        IN /\ addToRedis(c) =>
                /\ zset' \ zset \subseteq Own(zset')
                /\ zset \ Own(zset) = zset' \ Own(zset')
           /\ zrangebyscoreCallback(c) =>
                LET tasks == pipeline'[c][Len(pipeline'[c])].tasks
                IN {tasks[k] : k \in 1..Len(tasks)} =
                      {x.member : x \in InRange(Own(zset), 0, Front(c).now)}
           /\ zrangebyscoreEmpty(c) => InRange(Own(zset), 0, Front(c).now) = {}
           /\ execCallback(c) =>
                /\ zset \ zset' \subseteq Own(zset)
                /\ zset \ Own(zset) = zset' \ Own(zset')]_vars

\* an engine has removed and delivered the due record of its queue while a
\* due record of the other queue stays in the store
C28_Witness ==
  /\ queueId["e1"] # queueId["e2"]
  /\ last.outcome = "committed" /\ last.result = 1
  /\ \E x \in zset :
        x.key # <<"delayed:", queueId[last.eng]>> /\ x.score <= last.now

\* two engines of one queue: one has delivered the record the other added
C28_Shared ==
  /\ queueId["e1"] = queueId["e2"]
  /\ last.outcome = "committed"
  /\ \E k \in 1..Len(last.calls) : last.calls[k].id \in acked
  /\ \A k \in 1..Len(pipeline[last.eng]) : pipeline[last.eng][k].op # "zadd"
  /\ issued = acked /\ Cardinality(issued) = 1 /\ npolls = 1

\* C31: a poll() aborts only if the key was written between its WATCH and
\* its EXEC; a poll() that read a batch and whose key was not written in
\* between commits, and leaves no record of its key with a due up to its now.
C31_AbortsOnlyWhenTouched ==
  /\ last.outcome = "aborted" => last.touched
  /\ (last.tasks # <<>> /\ ~last.touched) =>
        /\ last.outcome \in {"committed", "rejected"}
        /\ last.outcome = "committed" =>
              \A x \in zset :
                 x.key = <<"delayed:", queueId[last.eng]>> => x.score > last.now

\* C32: where poll() calls contend with each other and no add() is made,
\* a poll() aborts only after another poll() has committed and delivered a
\* batch: the polls never all abort.
C32_SomePollCommits ==
  last.outcome = "aborted" => \E i \in TaskIds : Total(i) >= 1

\* a poll() has aborted after the poll() of the other engine delivered the
\* batch both had read
C32_Witness ==
  /\ ~overlapped
  /\ last.outcome = "aborted"
  /\ \A k \in 1..Len(last.tasks) : Total(parse(last.tasks[k]).id) = 1

\* C33: the step that aborts the EXEC of a poll() settles it with 0: it
\* issues no command, reads nothing again, invokes no callback and leaves the
\* store as it is, so that the batch stays for a poll() called later.
C33_NoRetryAfterAbort ==
  [][\A c \in Engines : execWatchError(c) =>
        /\ last'.outcome = "aborted" /\ last'.result = 0 /\ last'.calls = <<>>
        /\ pipeline' = [pipeline EXCEPT ![c] = Tail(@)]
        /\ zset' = zset
        /\ delivered' = delivered
        /\ npolls' = npolls]_vars

\* a poll() has aborted, nothing of it is in flight and a record it had read
\* is still stored
C33_Witness ==
  /\ last.outcome = "aborted"
  /\ pipeline[last.eng] = <<>>
  /\ \E k \in 1..Len(last.tasks) : last.tasks[k] \in Members(zset)

C36_DecodableDelivered ==
  \A x \in last.removed :
     Decodable(x.member) => parse(x.member).id \in CallIds(last)

\* the ids of the batches that poll() calls in flight have read
InFlightIds ==
  UNION {UNION {SnapshotIds(pipeline[c][k]) :
                  k \in {j \in 1..Len(pipeline[c]) : pipeline[c][j].op = "exec"}} :
           c \in Engines}

\* C37: when the callback raises at a task of a claimed batch, the tasks of
\* the batch before it and the task itself have been handed to the callback
\* and the ones after it have not, none of the batch is in the store, and a
\* task that is neither stored nor in a batch already read is never delivered.
C37_RaisingCallbackLosesRest ==
  [][/\ last'.outcome = "raised" =>
          /\ last'.raisedAt \in 1..Len(last'.tasks)
          /\ Len(last'.calls) = last'.raisedAt
          /\ \A k \in 1..Len(last'.tasks) :
                /\ k <= last'.raisedAt => last'.calls[k] = parse(last'.tasks[k])
                /\ \A x \in zset' : x.member # last'.tasks[k]
     /\ \A i \in acked :
          (~InStore(i) /\ Total(i) = 0 /\ i \notin InFlightIds) =>
             delivered'[i] = delivered[i]]_vars

\* the callback raised at the first of two tasks: the second is neither
\* stored nor delivered nor in a batch in flight
C37_Witness ==
  /\ last.outcome = "raised"
  /\ Len(last.tasks) = 2 /\ last.raisedAt = 1
  /\ LET lost == parse(last.tasks[2]).id
     IN Total(lost) = 0 /\ ~InStore(lost) /\ lost \notin InFlightIds

\* the ids of the batches whose EXEC is applied and whose reply is awaited
AppliedIds ==
  UNION {UNION {SnapshotIds(pipeline[c][k]) :
                  k \in {j \in 1..Len(pipeline[c]) :
                           pipeline[c][j].op = "execReply"}} :
           c \in Engines}

\* C38: where no engine overlaps its own poll() calls, every task whose
\* add() has resolved is in the store, or has been handed to a callback, or
\* is in a batch whose commit is applied and whose delivery is still to come,
\* also when close() is called while a poll() is in flight.
C38_RemovedOnlyIfDelivered ==
  ~overlapped =>
     \A i \in acked : InStore(i) \/ Total(i) >= 1 \/ i \in AppliedIds

\* C39: an add() that the callback makes while a committed batch is being
\* delivered issues its ZADD after the commit with a due above the now of
\* that poll(): its record is not in the delivered batch, the step neither
\* changes the store nor invokes a callback, and the record can only be read
\* by a poll() whose now is later.
C39_ReAddedAfterCommit ==
  [][(last.outcome = "committed" /\ last.calls # <<>>) =>
        LET e == last.eng
            n == Len(pipeline'[e])
        IN (n = Len(pipeline[e]) + 1 /\ pipeline'[e][n].op = "zadd") =>
              /\ pipeline'[e][n].score > last.now
              /\ parse(pipeline'[e][n].member).due > last.now
              /\ pipeline'[e][n].id \notin CallIds(last)
              /\ zset' = zset
              /\ delivered' = delivered]_vars

\* an engine that has delivered a task has an add() in flight whose record
\* will be due after every time read so far
C39_Witness ==
  \E e \in Engines, i \in TaskIds :
     /\ delivered[i][e] = 1
     /\ zset = {}
     /\ \E k \in 1..Len(pipeline[e]) :
           /\ pipeline[e][k].op = "zadd"
           /\ pipeline[e][k].id # i
           /\ pipeline[e][k].score > clock

====
